---- MODULE Spec2Model ----
(***************************************************************************)
(* Wildfire backend: the SNS ingress (POST /sns/webhook and its alias      *)
(* POST /webhook/fire-alert), the socket.io hub (rooms, joins, leaves,     *)
(* broadcasts) and the FireAlertService history, as a state machine.       *)
(*                                                                         *)
(* Handlers run to completion on the single Node.js thread; the only       *)
(* suspension point of the ingress is the confirmation fetch, so one       *)
(* action models a handler up to that await and another its resumption.    *)
(***************************************************************************)
EXTENDS Integers, Sequences, FiniteSets, TLC

VARIABLES
  io,            \* global.io has been set (server.listen callback ran)
  connected,     \* socket ids of the live connections
  rooms,         \* socket.io adapter: socket id -> set of room names
  alertHistory,  \* FireAlertService.alertHistory, newest first
  generated,     \* alert ids handed out by generateAlertId so far
  serviceInput,  \* the raw payload the service is called with
  provider,      \* whether the notification provider answers the fetches
  reads,         \* store reads (getLatestRecord) that have not returned yet
  pending,       \* deliveries suspended at `await fetch(...)`
  last,          \* what the handler that ran last did (response, emits, fetches)
  clients        \* each client's own account: is it connected, what has it
                 \* subscribed to and not unsubscribed from since

vars == <<io, connected, rooms, alertHistory, generated, serviceInput, provider,
          reads, pending, last, clients>>

(***************************************************************************)
(* Bounds of the model.                                                    *)
(***************************************************************************)
MaxInFlight == 1   \* deliveries that may be suspended at the fetch at once
MaxRepeat == 2     \* consecutive redeliveries of one envelope that are counted
MaxOver == 3       \* alerts inserted beyond the capacity of the history
MaxClassified == 2 \* calls of processFireAlert with one payload
MaxReads == 2      \* reads of the store that may be pending at once

(***************************************************************************)
(* Program constants.                                                      *)
(***************************************************************************)
maxHistorySize == 100

Conn == {"s1", "s2"}
IngressConn == {"s1"}
Devices == {"d1"}
Undef == "undefined"

FireAlertsRoom == "fire-alerts"
DeviceRoom(deviceId) == "device-" \o deviceId

(***************************************************************************)
(* Subjects.  A string subject is a sequence of characters so that         *)
(* toLowerCase() and includes('fire') are computed, not assumed.           *)
(***************************************************************************)
SubjFireAlert == [t |-> "string", s |-> <<"F","i","r","e"," ","A","l","e","r","t">>]
SubjWildfire  == [t |-> "string", s |-> <<"W","I","L","D","F","I","R","E">>]
SubjRoutine   == [t |-> "string", s |-> <<"R","o","u","t","i","n","e"," ","C","h","e","c","k">>]
SubjFir       == [t |-> "string", s |-> <<"F","i","r"," ","e">>]
SubjEmpty     == [t |-> "string", s |-> <<>>]
SubjAbsent    == [t |-> "undefined", s |-> <<>>]
SubjNumber    == [t |-> "number", s |-> <<>>]
\* the subject the test endpoints pass to processNotification
SubjFireAlertTest ==
  [t |-> "string", s |-> <<"F","i","r","e"," ","A","l","e","r","t"," ","T","e","s","t">>]

Subjects == {SubjFireAlert, SubjWildfire, SubjRoutine, SubjFir, SubjEmpty,
             SubjAbsent, SubjNumber}

toLowerCaseChar(c) ==
  CASE c = "F" -> "f" [] c = "I" -> "i" [] c = "R" -> "r" [] c = "E" -> "e"
    [] c = "W" -> "w" [] c = "L" -> "l" [] c = "D" -> "d" [] c = "A" -> "a"
    [] c = "C" -> "c" [] c = "T" -> "t" [] OTHER -> c

toLowerCase(s) == [i \in 1..Len(s) |-> toLowerCaseChar(s[i])]

includes(s, needle) ==
  \E i \in 0..Len(s) :
    /\ i + Len(needle) <= Len(s)
    /\ \A j \in 1..Len(needle) : s[i + j] = needle[j]

FireKeyword == <<"f","i","r","e">>

(***************************************************************************)
(* Inner message data (the JSON object carried in the envelope's Message). *)
(* Absent keys are Undef.  hasPayload: the nested `payload` object exists; *)
(* hasLocation: the top-level `location` object exists.                    *)
(***************************************************************************)
\* A number that may be absent is <<>> when absent and <<v>> when present,
\* so that a comparison with undefined is computed as JavaScript computes
\* it: false.
Absent == <<>>
Num(v) == <<v>>

\* the sensor readings at the top level of the message data
Readings(temperature, humidity, smoke_level, air_quality) ==
  [temperature |-> temperature, humidity |-> humidity,
   smoke_level |-> smoke_level, air_quality |-> air_quality]
NoReadings == Readings(Absent, Absent, Absent, Absent)

MsgData(ie, em, hp, pie, pem, did, dev, loc, sev) ==
  [is_emergency |-> ie, emergency |-> em, hasPayload |-> hp,
   p_is_emergency |-> pie, p_emergency |-> pem,
   deviceId |-> did, device |-> dev, hasLocation |-> loc, severity |-> sev,
   readings |-> NoReadings, p_readings |-> NoReadings]

NoData == MsgData(Undef, Undef, FALSE, Undef, Undef, Undef, Undef, FALSE, Undef)

\* {deviceId, location, is_emergency: true}: the shape the alias endpoint reads
DataTop     == MsgData("true", Undef, FALSE, Undef, Undef, "d1", Undef, TRUE, Undef)
\* {device, payload: {emergency: true, gps}}: the shape of test-sns.js
DataNested  == MsgData(Undef, Undef, TRUE, "false", "true", Undef, "d1", FALSE, "HIGH")
\* every flag absent or false
DataQuiet   == MsgData("false", Undef, TRUE, Undef, Undef, "d1", Undef, TRUE, Undef)
\* an emergency that names no device
DataNoDev   == MsgData(Undef, "true", FALSE, Undef, Undef, Undef, Undef, TRUE, Undef)
\* no flag set, and readings past the thresholds: 61 degrees, 49 % humidity
DataHot     == [MsgData("false", Undef, FALSE, Undef, Undef, "d1", Undef, TRUE, Undef)
                  EXCEPT !.readings = Readings(Num(61), Num(49), Num(100), Num(150))]

\* an emergency whose readings are present at the top level (humidity 0
\* among them) and, with other values, under payload
DataBoth    == [MsgData("true", Undef, TRUE, Undef, Undef, "d1", Undef, TRUE, Undef)
                  EXCEPT !.readings = Readings(Num(46), Num(0), Num(101), Num(151)),
                         !.p_readings = Readings(Num(61), Num(49), Num(301), Num(251))]

\* envelope.Message: absent, a plain text, the JSON text of an object
Message(syntax, data) == [syntax |-> syntax, data |-> data]
Messages ==
  {Message("text", NoData)} \cup
  {Message("object", d) : d \in {DataTop, DataNested, DataQuiet, DataNoDev, DataHot}}

(***************************************************************************)
(* Envelopes.  SNS states the message kind both in the header              *)
(* x-amz-sns-message-type, which /sns/webhook reads, and in the body's     *)
(* Type, which /webhook/fire-alert reads; Type stands for both.  urlKey is *)
(* the key under which the confirmation URL is present (Undef: under none).*)
(***************************************************************************)
UrlKeys == {"SubscribeURL", "subscribeURL", "SubscribeUrl", Undef}

Envelope(type, urlKey, subject, message) ==
  [Type |-> type, urlKey |-> urlKey, Subject |-> subject, Message |-> message]

NoMessage == Message(Undef, NoData)
NoEnvelope == Envelope(Undef, Undef, SubjAbsent, NoMessage)

Envelopes ==
  {Envelope("SubscriptionConfirmation", k, SubjAbsent, NoMessage) : k \in UrlKeys}
  \cup {Envelope("Notification", Undef, s, Message("object", DataTop)) : s \in Subjects}
  \cup {Envelope("Notification", Undef, s, m) : s \in {SubjFireAlert, SubjRoutine}, m \in Messages}
  \cup {Envelope("UnsubscribeConfirmation", Undef, SubjAbsent, NoMessage),
        Envelope("Other", Undef, SubjAbsent, NoMessage)}

(***************************************************************************)
(* Request bodies.  A JSON text is invalid, the text `null`, or the text   *)
(* of an envelope object.  req.body is a Buffer or a string holding such a *)
(* text, or the object express.json() already parsed.                      *)
(***************************************************************************)
JsonText(syntax, env) == [syntax |-> syntax, env |-> env]
JsonTexts ==
  {JsonText("invalid", NoEnvelope), JsonText("null", NoEnvelope)}
  \cup {JsonText("object", e) : e \in Envelopes}

Endpoints == {"/sns/webhook", "/webhook/fire-alert"}

\* sig: what a check of the envelope's Signature against its signing
\* certificate would find; the handlers never read it
Signatures == {"valid", "invalid", "missing"}

Request(ep, form, json) == [ep |-> ep, form |-> form, json |-> json, sig |-> "valid"]
NoRequest == Request(Undef, Undef, JsonText(Undef, NoEnvelope))

\* One envelope of each kind arrives in every form; express.json() is strict
\* and yields an object only from the text of an object.  The other envelopes
\* arrive as SNS sends them, text/plain, which express.raw() reads to a Buffer.
FormEnvelopes ==
  {Envelope("SubscriptionConfirmation", "SubscribeURL", SubjAbsent, NoMessage),
   Envelope("Notification", Undef, SubjFireAlert, Message("object", DataTop)),
   Envelope("UnsubscribeConfirmation", Undef, SubjAbsent, NoMessage),
   Envelope("Other", Undef, SubjAbsent, NoMessage)}

Requests ==
  {Request(ep, f, JsonText(x, NoEnvelope)) :
     ep \in Endpoints, f \in {"buffer", "string"}, x \in {"invalid", "null"}}
  \cup {Request(ep, f, JsonText("object", e)) :
          ep \in Endpoints, f \in {"buffer", "string", "object"}, e \in FormEnvelopes}
  \cup {Request(ep, "buffer", JsonText("object", e)) : ep \in Endpoints, e \in Envelopes}

\* the deliveries of the hub's specification: emergencies with and without a
\* device, a notification the subject filter drops, a confirmation; an
\* emergency and a confirmation whose signature is invalid or missing
HubRequests ==
  {Request(ep, "buffer", JsonText("object", e)) :
     ep \in Endpoints,
     e \in {Envelope("Notification", Undef, SubjFireAlert, Message("object", DataTop)),
            Envelope("Notification", Undef, SubjFireAlert, Message("object", DataNoDev)),
            Envelope("Notification", Undef, SubjFireAlert, Message("object", DataBoth)),
            Envelope("Notification", Undef, SubjRoutine, Message("object", DataTop)),
            Envelope("SubscriptionConfirmation", "SubscribeURL", SubjAbsent, NoMessage)}}
  \cup {[Request(ep, "buffer", JsonText("object", e)) EXCEPT !.sig = sig] :
          ep \in Endpoints, sig \in Signatures \ {"valid"},
          e \in {Envelope("SubscriptionConfirmation", "SubscribeURL", SubjAbsent, NoMessage),
                 Envelope("Notification", Undef, SubjFireAlert, Message("object", DataTop))}}

(***************************************************************************)
(* JavaScript helpers.                                                     *)
(***************************************************************************)
Truthy(flag) == flag = "true"

\* JSON.parse of a text: throws SyntaxError unless the text is JSON
JSONparse(json) ==
  [threw |-> json.syntax \notin {"null", "object"},
   isNull |-> json.syntax = "null",
   env |-> json.env]

\* String(object) is "[object Object]", which is not JSON
ObjectToString(json) == JsonText("invalid", NoEnvelope)

\* JSON.parse(snsMessage.Message): an absent Message reads "undefined"
MessageParse(message) ==
  [threw |-> message.syntax # "object", data |-> message.data]

(***************************************************************************)
(* The hub: socket.io's adapter.  io.emit reaches every live connection,   *)
(* io.to(room).emit the connections joined to the room, socket.emit the    *)
(* socket itself.                                                          *)
(***************************************************************************)
RoomMembers(room) == {c \in Conn : room \in rooms[c]}

\* the ui hints of an emergency event (a key that is absent is Undef)
Ui(autoExpire, priority) == [autoExpire |-> autoExpire, priority |-> priority]
NoUi == Ui(Undef, Undef)

\* what an emergency event carries: data.temperature .. data.air_quality,
\* data.severity, level, ui
EventData(readings, severity, level, ui) ==
  [readings |-> readings, severity |-> severity, level |-> level, ui |-> ui]
NoEventData == EventData(NoReadings, Undef, Undef, NoUi)

Emit(event, target, deviceId, to) ==
  [event |-> event, target |-> target, deviceId |-> deviceId, to |-> to,
   data |-> NoEventData]

ioEmit(event, deviceId) == Emit(event, "all", deviceId, connected)
ioToEmit(room, event, deviceId) == Emit(event, room, deviceId, RoomMembers(room))
socketEmit(c, event, deviceId) == Emit(event, c, deviceId, {c})

(***************************************************************************)
(* What a handler did: the response status (0: none yet, the handler is    *)
(* suspended), the emits in order, the broadcast blocks it ran, the        *)
(* fetch() calls it made and those that went out, whether it caught and    *)
(* logged an error of the processing, and whether the error reached the    *)
(* handler's outer catch.                                                  *)
(***************************************************************************)
Outcome(status, emits, broadcasts, fetchCalls, outbound, caught, thrown) ==
  [status |-> status, emits |-> emits, broadcasts |-> broadcasts,
   fetchCalls |-> fetchCalls, outbound |-> outbound,
   caught |-> caught, thrown |-> thrown]

Failed == Outcome(500, <<>>, 0, 0, 0, FALSE, TRUE)
Acked == Outcome(200, <<>>, 0, 0, 0, FALSE, FALSE)

(***************************************************************************)
(* processNotification(subject, messageData) of routes/sns.js.  Its whole  *)
(* body is one try/catch: nothing it raises leaves it.                     *)
(***************************************************************************)
SubjectTruthy(subject) ==
  subject.t = "number" \/ (subject.t = "string" /\ subject.s # <<>>)

\* subject.toLowerCase().includes('fire') of every subject, worked out once
includesFire ==
  [subject \in Subjects \cup {SubjFireAlertTest} |->
     includes(toLowerCase(subject.s), FireKeyword)]

\* subject && subject.toLowerCase().includes('fire'), for a string subject
subjectMatches(subject) ==
  /\ SubjectTruthy(subject)
  /\ includesFire[subject]

\* is_emergency || emergency || payload?.is_emergency || payload?.emergency || false
isEmergency(d) ==
  \/ Truthy(d.is_emergency)
  \/ Truthy(d.emergency)
  \/ (d.hasPayload /\ Truthy(d.p_is_emergency))
  \/ (d.hasPayload /\ Truthy(d.p_emergency))

\* messageData.deviceId || messageData.device || 'Unknown Device'
notificationDeviceId(d) ==
  IF d.deviceId # Undef THEN d.deviceId
  ELSE IF d.device # Undef THEN d.device
  ELSE "Unknown Device"

\* messageData.payload?.x || messageData.x || 0: the first truthy of the
\* two, a 0 and an absent value fall through
payloadFirst(nested, top) ==
  IF nested # Absent /\ nested[1] # 0 THEN nested
  ELSE IF top # Absent /\ top[1] # 0 THEN top
  ELSE Num(0)

\* payload?.x of the message data
payloadReadings(d) == IF d.hasPayload THEN d.p_readings ELSE NoReadings

\* const fireAlertData = { level: 'CRITICAL', data: {...} }: no ui key
fireAlertData(d) ==
  EventData(
    Readings(payloadFirst(payloadReadings(d).temperature, d.readings.temperature),
             payloadFirst(payloadReadings(d).humidity, d.readings.humidity),
             payloadFirst(payloadReadings(d).smoke_level, d.readings.smoke_level),
             payloadFirst(payloadReadings(d).air_quality, d.readings.air_quality)),
    IF d.severity # Undef THEN d.severity ELSE "CRITICAL",
    "CRITICAL", NoUi)

\* if (global.io) { global.io.emit('fire-emergency', fireAlertData) } else warn
notificationBroadcast(d) ==
  IF io
  THEN <<[ioEmit("fire-emergency", notificationDeviceId(d)) EXCEPT !.data = fireAlertData(d)]>>
  ELSE <<>>

\* processNotification without its try/catch: the TypeError leaves it
processNotificationNoCatch(subject, parsed) ==
  IF SubjectTruthy(subject) /\ subject.t # "string"
  THEN Failed
  ELSE IF subjectMatches(subject) /\ ~parsed.threw /\ isEmergency(parsed.data)
  THEN Outcome(200, notificationBroadcast(parsed.data), IF io THEN 1 ELSE 0,
               0, 0, FALSE, FALSE)
  ELSE Acked

\* processNotification without the `if (global.io)` guard: emit of undefined
processNotificationUnguarded(subject, parsed) ==
  IF SubjectTruthy(subject) /\ subject.t # "string"
  THEN Outcome(200, <<>>, 0, 0, 0, TRUE, FALSE)
  ELSE IF subjectMatches(subject) /\ ~parsed.threw /\ isEmergency(parsed.data)
  THEN IF io
       THEN Outcome(200, notificationBroadcast(parsed.data), 1, 0, 0, FALSE, FALSE)
       ELSE Outcome(200, <<>>, 0, 0, 0, TRUE, FALSE)
  ELSE Acked

processNotification(subject, parsed) ==
  IF SubjectTruthy(subject) /\ subject.t # "string"
  THEN \* subject.toLowerCase is not a function: TypeError, caught and logged
       Outcome(200, <<>>, 0, 0, 0, TRUE, FALSE)
  ELSE IF subjectMatches(subject) /\ ~parsed.threw /\ isEmergency(parsed.data)
  THEN Outcome(200, notificationBroadcast(parsed.data), IF io THEN 1 ELSE 0,
               0, 0, FALSE, FALSE)
  ELSE Acked

(***************************************************************************)
(* router.post('/webhook') of routes/sns.js, up to its first await that    *)
(* suspends (the confirmation fetch) or to its response.                   *)
(***************************************************************************)
Suspended == Outcome(0, <<>>, 0, 1, 1, FALSE, FALSE)

snsBody(req) ==
  IF req.form = "object"
  THEN [threw |-> FALSE, isNull |-> FALSE, env |-> req.json.env]
  ELSE JSONparse(req.json)

\* snsMessage.SubscribeURL || snsMessage.subscribeURL || snsMessage.SubscribeUrl
snsSubscribeUrl(env) ==
  IF env.urlKey \in {"SubscribeURL", "subscribeURL", "SubscribeUrl"}
  THEN env.urlKey ELSE Undef

\* the switch with a default case that rejects the kinds it does not know
snsWebhookStrict(req) ==
  LET snsMessage == snsBody(req)
      env == snsMessage.env
  IN IF snsMessage.threw \/ snsMessage.isNull
     THEN Failed
     ELSE CASE env.Type = "SubscriptionConfirmation" ->
                 IF snsSubscribeUrl(env) # Undef THEN Suspended ELSE Acked
            [] env.Type = "Notification" ->
                 processNotification(env.Subject, MessageParse(env.Message))
            [] env.Type = "UnsubscribeConfirmation" -> Acked
            [] OTHER -> Failed

snsWebhook(req) ==
  LET snsMessage == snsBody(req)
      env == snsMessage.env
  IN IF snsMessage.threw \/ snsMessage.isNull
     THEN Failed    \* JSON.parse threw, or snsMessage.MessageId of null
     ELSE CASE env.Type = "SubscriptionConfirmation" ->
                 IF snsSubscribeUrl(env) # Undef THEN Suspended ELSE Acked
            [] env.Type = "Notification" ->
                 processNotification(env.Subject, MessageParse(env.Message))
            [] OTHER -> Acked

\* the fetch settled: response.ok, a non-2xx response, or a rejection
FetchResults == {"ok", "non2xx", "reject"}
\* the fetch outside its try/catch: a rejection reaches the outer catch
snsWebhookResumeThrows(result) ==
  IF result = "reject" THEN Outcome(500, <<>>, 0, 1, 1, FALSE, TRUE)
  ELSE Outcome(200, <<>>, 0, 1, 1, FALSE, FALSE)

snsWebhookResume(result) ==
  Outcome(200, <<>>, 0, 1, 1, result = "reject", FALSE)

(***************************************************************************)
(* router.post('/test') and router.get('/test') of routes/sns.js.  A test  *)
(* request carries a JSON object or no body at all.                        *)
(***************************************************************************)
TestBody(sent, data) == [sent |-> sent, data |-> data]
NoBody == TestBody(FALSE, NoData)

\* the body test-sns.js posts: {device, payload: {readings, gps}, is_emergency: true}
DataTestScript == MsgData("true", Undef, TRUE, Undef, Undef, Undef, "d1", FALSE, Undef)
\* the canned sample: {device, payload: {readings, is_emergency: true, gps}}
CannedSample == MsgData(Undef, Undef, TRUE, "true", Undef, Undef, "d1", FALSE, Undef)

TestBodies == {NoBody, TestBody(TRUE, DataTestScript), TestBody(TRUE, DataQuiet)}

\* express.json(): req.body = req.body || {}, then the parsed object when
\* the request has a body
expressJson(body) ==
  IF body.sent THEN [t |-> "object", data |-> body.data]
  ELSE [t |-> "object", data |-> NoData]

\* const testMessage = req.body || { ...canned sample }
snsTestMessage(reqBody) ==
  IF reqBody.t = "object" THEN reqBody.data ELSE CannedSample

snsTestPost(body) ==
  processNotification(SubjFireAlertTest,
                      [threw |-> FALSE, data |-> snsTestMessage(expressJson(body))])

snsTestGet ==
  processNotification(SubjFireAlertTest, [threw |-> FALSE, data |-> CannedSample])

\* the record of a test request
TestStep(h, body, out) == [h |-> h, body |-> body, out |-> out]

(***************************************************************************)
(* router.post('/fire-alert') of routes/fireAlerts.js.                     *)
(***************************************************************************)
\* JSON.parse(body): a Buffer or a string is read as its text, an object
\* is first turned into a string
fireAlertBody(req) ==
  IF req.form = "object" THEN JSONparse(ObjectToString(req.json))
  ELSE JSONparse(req.json)

\* const emergencyBroadcast = { level: 'CRITICAL', data: {...}, ui: {...} }
emergencyBroadcast(d) ==
  EventData(d.readings,
            IF d.severity # Undef THEN d.severity ELSE "CRITICAL",
            "CRITICAL", Ui("false", "HIGH"))

fireAlertBroadcast(d) ==
  IF io
  THEN << [ioEmit("fire-emergency", d.deviceId) EXCEPT !.data = emergencyBroadcast(d)],
          [ioToEmit(DeviceRoom(d.deviceId), "device-emergency", d.deviceId)
             EXCEPT !.data = emergencyBroadcast(d)],
          [ioEmit("emergency-popup", d.deviceId) EXCEPT !.data = emergencyBroadcast(d)] >>
  ELSE <<>>

fireAlertNotification(message) ==
  LET alertData == MessageParse(message)
  IN IF alertData.threw THEN Failed              \* JSON.parse(message.Message)
     ELSE IF ~alertData.data.hasLocation THEN Failed  \* alertData.location.latitude
     ELSE Outcome(200, fireAlertBroadcast(alertData.data), IF io THEN 1 ELSE 0,
                  0, 0, FALSE, FALSE)

fireAlertWebhook(req) ==
  LET message == fireAlertBody(req)
      env == message.env
  IN IF message.threw \/ message.isNull
     THEN Failed
     ELSE IF env.Type = "SubscriptionConfirmation"
     THEN IF env.urlKey = "SubscribeURL"
          THEN Suspended
          \* fetch(undefined) rejects before any request goes out
          ELSE Outcome(200, <<>>, 0, 1, 0, TRUE, FALSE)
     ELSE IF env.Type = "Notification"
     THEN fireAlertNotification(env.Message)
     ELSE Acked

fireAlertResume(result) ==
  Outcome(200, <<>>, 0, 1, 1, result = "reject", FALSE)

(***************************************************************************)
(* The record of the handler that ran last.  run counts the deliveries of  *)
(* one and the same envelope to one endpoint that arrived in a row (no     *)
(* other handler between them), runBroadcasts and runOutbound what they    *)
(* did together, runHistory the history length before the first of them.   *)
(***************************************************************************)
Step(h, sock, req, out, fetched, run, runBroadcasts, runOutbound, runHistory) ==
  [h |-> h, sock |-> sock, req |-> req, out |-> out,
   fetched |-> fetched, run |-> run, runBroadcasts |-> runBroadcasts,
   runOutbound |-> runOutbound, runHistory |-> runHistory]

Started == Step("start", Undef, NoRequest, Outcome(0, <<>>, 0, 0, 0, FALSE, FALSE),
                Undef, 0, 0, 0, 0)

SocketStep(event, c, emits) ==
  Step(event, c, NoRequest, Outcome(0, emits, 0, 0, 0, FALSE, FALSE), Undef, 0, 0, 0, 0)

SameEnvelope(req) ==
  /\ last.h \in Endpoints
  /\ last.req.ep = req.ep
  /\ last.req.json = req.json

\* a delivery arrived and ran to its response or to its suspension
Arrived(req, out) ==
  IF SameEnvelope(req) /\ last.out.status # 0 /\ last.run < MaxRepeat
  THEN Step(req.ep, Undef, req, out, Undef, last.run + 1,
            last.runBroadcasts + out.broadcasts,
            last.runOutbound + out.outbound, last.runHistory)
  ELSE Step(req.ep, Undef, req, out, Undef, 1, out.broadcasts, out.outbound,
            Len(alertHistory))

\* a suspended delivery resumed and responded
Resumed(req, out, result) ==
  IF SameEnvelope(req) /\ last.out.status = 0
  THEN Step(req.ep, Undef, req, out, result, last.run, last.runBroadcasts,
            last.runOutbound, last.runHistory)
  ELSE Step(req.ep, Undef, req, out, result, 1, 0, out.outbound, Len(alertHistory))

Remove(seq, i) == [j \in 1..(Len(seq) - 1) |-> IF j < i THEN seq[j] ELSE seq[j + 1]]

(***************************************************************************)
(* FireAlertService (services/fireAlertService.js).  A raw payload is the  *)
(* object the service is handed, or undefined.                             *)
(***************************************************************************)
\* location: absent, an object without (or with a zero) latitude or
\* longitude, an object with both
Locations == {Undef, "incomplete", "complete"}

AlertData(t, deviceId, temperature, humidity, smoke_level, air_quality, location) ==
  [t |-> t, deviceId |-> deviceId, temperature |-> temperature,
   humidity |-> humidity, smoke_level |-> smoke_level,
   air_quality |-> air_quality, location |-> location]

NoAlertData == AlertData(Undef, Undef, Absent, Absent, Absent, Absent, Undef)

\* the readings on both sides of every threshold of calculateSeverity
Temperatures == {Absent} \cup {Num(v) : v \in {0, 35, 36, 45, 46, 60, 61}}
Humidities   == {Absent} \cup {Num(v) : v \in {0, 19, 20, 34, 35, 49, 50}}
SmokeLevels  == {Absent} \cup {Num(v) : v \in {100, 101, 200, 201, 300, 301}}
AirQualities == {Absent} \cup {Num(v) : v \in {150, 151, 250, 251}}

\* every combination of readings in a payload that names its device and
\* its place, and payloads that lack the device, the place or everything
AlertDatas ==
  {AlertData("object", "d1", t, h, s, a, "complete") :
     t \in Temperatures, h \in Humidities, s \in SmokeLevels, a \in AirQualities}
  \cup {AlertData("object", d, Num(61), Num(19), Num(301), Num(251), l) :
          d \in {Undef, "d1"}, l \in Locations}
  \cup {NoAlertData}

\* the payloads of the history's specification
ValidAlertData == AlertData("object", "d1", Num(61), Num(19), Num(301), Num(251), "complete")
RingAlertDatas ==
  {ValidAlertData,
   AlertData("object", "d1", Num(0), Num(19), Num(301), Num(251), "complete")}

\* x > n and x < n of JavaScript: false when x is undefined
Gt(x, n) == x # Absent /\ x[1] > n
Lt(x, n) == x # Absent /\ x[1] < n
\* !x for a number that may be absent: undefined and 0 are falsy
Falsy(x) == x = Absent \/ x[1] = 0

\* validateAlertData(data): data[field] of undefined is a TypeError
validateAlertData(data) ==
  IF data.t # "object" THEN [threw |-> TRUE, valid |-> FALSE]
  ELSE [threw |-> FALSE,
        valid |-> /\ data.deviceId # Undef
                  /\ ~Falsy(data.temperature)
                  /\ data.location # Undef
                  /\ data.location = "complete"]

temperatureScore(data) ==
  IF Gt(data.temperature, 60) THEN 3
  ELSE IF Gt(data.temperature, 45) THEN 2
  ELSE IF Gt(data.temperature, 35) THEN 1 ELSE 0

\* the highest temperature tier scored below the middle one
temperatureScoreTopLow(data) ==
  IF Gt(data.temperature, 60) THEN 1
  ELSE IF Gt(data.temperature, 45) THEN 2
  ELSE IF Gt(data.temperature, 35) THEN 1 ELSE 0

humidityScore(data) ==
  IF Lt(data.humidity, 20) THEN 3
  ELSE IF Lt(data.humidity, 35) THEN 2
  ELSE IF Lt(data.humidity, 50) THEN 1 ELSE 0

smokeScore(data) ==
  IF Gt(data.smoke_level, 300) THEN 3
  ELSE IF Gt(data.smoke_level, 200) THEN 2
  ELSE IF Gt(data.smoke_level, 100) THEN 1 ELSE 0

airQualityScore(data) ==
  IF Gt(data.air_quality, 250) THEN 2
  ELSE IF Gt(data.air_quality, 150) THEN 1 ELSE 0

\* air quality compared with >= at its upper threshold
airQualityScoreInclusive(data) ==
  IF data.air_quality # Absent /\ data.air_quality[1] >= 250 THEN 2
  ELSE IF Gt(data.air_quality, 150) THEN 1 ELSE 0

severityLevel(severityScore) ==
  IF severityScore >= 8 THEN "EXTREME"
  ELSE IF severityScore >= 6 THEN "CRITICAL"
  ELSE IF severityScore >= 4 THEN "HIGH"
  ELSE IF severityScore >= 2 THEN "MODERATE"
  ELSE "LOW"

calculateSeverityInclusive(data) ==
  severityLevel(temperatureScore(data) + humidityScore(data)
                + smokeScore(data) + airQualityScoreInclusive(data))

calculateSeverityTopLow(data) ==
  severityLevel(temperatureScoreTopLow(data) + humidityScore(data)
                + smokeScore(data) + airQualityScore(data))

calculateSeverity(data) ==
  severityLevel(temperatureScore(data) + humidityScore(data)
                + smokeScore(data) + airQualityScore(data))

\* generateAlertId(): FIRE_<clock>_<random>, a fresh id at every call; the
\* ids are numbered in the order they are handed out
generateAlertId == generated + 1

NoAlert == [id |-> 0, deviceId |-> Undef, severity |-> Undef]

\* unshift without the trimming slice
addToHistoryNoTrim(history, alert) == <<alert>> \o history

\* alertHistory.unshift(alert), then slice(0, maxHistorySize) when too long
addToHistory(history, alert) ==
  LET unshifted == <<alert>> \o history
  IN IF Len(unshifted) > maxHistorySize
     THEN SubSeq(unshifted, 1, maxHistorySize)
     ELSE unshifted

\* the alert stored before the payload is validated
processFireAlertEager(data) ==
  LET v == validateAlertData(data)
      processedAlert == [id |-> generateAlertId,
                         deviceId |-> data.deviceId,
                         severity |-> calculateSeverity(data)]
  IN IF v.threw \/ ~v.valid
     THEN [threw |-> TRUE, alert |-> NoAlert,
           history |-> addToHistory(alertHistory, processedAlert)]
     ELSE [threw |-> FALSE, alert |-> processedAlert,
           history |-> addToHistory(alertHistory, processedAlert)]

\* processFireAlert(alertData): what it returns or that it threw, and the
\* history it leaves
processFireAlert(data) ==
  LET v == validateAlertData(data)
  IN IF v.threw \/ ~v.valid
     THEN [threw |-> TRUE, alert |-> NoAlert, history |-> alertHistory]
     ELSE LET processedAlert == [id |-> generateAlertId,
                                 deviceId |-> data.deviceId,
                                 severity |-> calculateSeverity(data)]
          IN [threw |-> FALSE, alert |-> processedAlert,
              history |-> addToHistory(alertHistory, processedAlert)]

\* createEmergencyBroadcast(alertData): processFireAlert, whose exception
\* passes through, then the broadcast built from the processed alert
createEmergencyBroadcast(data) ==
  LET r == processFireAlert(data)
      severity == r.alert.severity
  IN IF r.threw
     THEN [threw |-> TRUE, ret |-> NoAlert, history |-> r.history]
     ELSE [threw |-> FALSE,
           ret |-> [level |-> severity, alert |-> r.alert,
                    ui |-> Ui(IF severity = "LOW" \/ severity = "MODERATE"
                              THEN "true" ELSE "false",
                              IF severity = "EXTREME" \/ severity = "CRITICAL"
                              THEN "HIGH" ELSE "NORMAL")],
           history |-> r.history]

\* Array.prototype.slice(begin, end) for integer arguments
slice(seq, begin, end) ==
  LET len == Len(seq)
      k == IF begin < 0 THEN (IF len + begin < 0 THEN 0 ELSE len + begin)
           ELSE (IF begin > len THEN len ELSE begin)
      final == IF end < 0 THEN (IF len + end < 0 THEN 0 ELSE len + end)
               ELSE (IF end > len THEN len ELSE end)
  IN SubSeq(seq, k + 1, final)

\* the limits getRecentAlerts is called with: none (the default applies),
\* zero, small, the capacity, beyond it, negative
Limits == {Absent, Num(0), Num(1), Num(10), Num(maxHistorySize),
           Num(maxHistorySize + 1), Num(-1)}

\* getRecentAlerts(limit = 10)
getRecentAlerts(limit) ==
  slice(alertHistory, 0, IF limit = Absent THEN 10 ELSE limit[1])

\* the record of a call of the service
ServiceStep(h, arg, threw, ret) == [h |-> h, arg |-> arg, threw |-> threw, ret |-> ret]

InitOf(datas) ==
  /\ io = FALSE
  /\ connected = {}
  /\ rooms = [c \in Conn |-> {}]
  /\ alertHistory = <<>>
  /\ generated = 0
  /\ serviceInput \in datas
  /\ provider = "answers"
  /\ reads = <<>>
  /\ pending = <<>>
  /\ last = Started
  /\ clients = [c \in Conn |-> [live |-> FALSE, joined |-> {}]]

\* the server as wired: no caller hands the service a payload
Init == InitOf({NoAlertData})

(***************************************************************************)
(* server.listen callback: global.io = io.  Clients can connect from then  *)
(* on.                                                                     *)
(***************************************************************************)
\* the delivery handled just before, for the record of the callback
handledBefore == IF last.h \in Endpoints THEN last.req ELSE NoRequest

\* a callback that emits, once the hub is there, the emergency of the
\* delivery handled just before
ServerListenFlushes ==
  /\ ~io
  /\ io' = TRUE
  /\ last' = Step("listen", Undef, handledBefore,
                  Outcome(0, IF last.h \in Endpoints /\ last.out.status = 200
                             THEN <<ioEmit("fire-emergency", Undef)>> ELSE <<>>,
                          0, 0, 0, FALSE, FALSE),
                  Undef, 0, 0, 0, 0)
  /\ UNCHANGED <<connected, rooms, alertHistory, generated, serviceInput, pending, clients, provider, reads>>

ServerListen ==
  /\ ~io
  /\ io' = TRUE
  /\ last' = Step("listen", Undef, handledBefore,
                  Outcome(0, <<>>, 0, 0, 0, FALSE, FALSE), Undef, 0, 0, 0, 0)
  /\ UNCHANGED <<connected, rooms, alertHistory, generated, serviceInput, pending, clients, provider, reads>>

(***************************************************************************)
(* The ingress.                                                            *)
(***************************************************************************)
Deliver(req, out) ==
  /\ out.status = 0 => Len(pending) < MaxInFlight
  /\ pending' = IF out.status = 0 THEN Append(pending, req) ELSE pending
  /\ last' = Arrived(req, out)
  /\ UNCHANGED <<io, connected, rooms, alertHistory, generated, serviceInput, clients, provider, reads>>

SnsWebhook(reqs) ==
  \E req \in reqs :
    /\ req.ep = "/sns/webhook"
    /\ Deliver(req, snsWebhook(req))

FireAlertWebhook(reqs) ==
  \E req \in reqs :
    /\ req.ep = "/webhook/fire-alert"
    /\ Deliver(req, fireAlertWebhook(req))

FetchReturn ==
  \E i \in 1..Len(pending), result \in FetchResults :
    /\ provider = "answers"
    /\ LET req == pending[i]
           out == IF req.ep = "/sns/webhook" THEN snsWebhookResume(result)
                  ELSE fireAlertResume(result)
       IN /\ pending' = Remove(pending, i)
          /\ last' = Resumed(req, out, result)
          /\ UNCHANGED <<io, connected, rooms, alertHistory, generated, serviceInput, clients, provider, reads>>

SnsTestPost ==
  \E body \in TestBodies :
    /\ last' = TestStep("POST /sns/test", body, snsTestPost(body))
    /\ UNCHANGED <<io, connected, rooms, alertHistory, generated, serviceInput,
                   pending, clients, provider, reads>>

SnsTestGet ==
  /\ last' = TestStep("GET /sns/test", NoBody, snsTestGet)
  /\ UNCHANGED <<io, connected, rooms, alertHistory, generated, serviceInput,
                 pending, clients, provider, reads>>

(***************************************************************************)
(* The hub's connection handlers (websocket/socketHandler.js).             *)
(***************************************************************************)
Connect(conns) ==
  \E c \in conns \ connected :
    /\ io
    /\ connected' = connected \cup {c}
    /\ rooms' = [rooms EXCEPT ![c] = {}]
    /\ last' = SocketStep("connection", c, <<socketEmit(c, "connected", Undef)>>)
    /\ clients' = [clients EXCEPT ![c] = [live |-> TRUE, joined |-> {}]]
    /\ UNCHANGED <<io, alertHistory, generated, serviceInput, pending, provider, reads>>

join(c, room) == [rooms EXCEPT ![c] = @ \cup {room}]
\* a handler that confirms the unsubscription and forgets socket.leave
leaveNothing(c, room) == rooms

leave(c, room) == [rooms EXCEPT ![c] = @ \ {room}]

SubscribeDevice ==
  \E c \in connected, deviceId \in Devices :
    /\ rooms' = join(c, DeviceRoom(deviceId))
    /\ clients' = [clients EXCEPT ![c].joined = @ \cup {DeviceRoom(deviceId)}]
    /\ last' = SocketStep("subscribe-device", c,
                          <<socketEmit(c, "subscription-confirmed", deviceId)>>)
    /\ UNCHANGED <<io, connected, alertHistory, generated, serviceInput, pending, provider, reads>>

UnsubscribeDevice ==
  \E c \in connected, deviceId \in Devices :
    /\ rooms' = leave(c, DeviceRoom(deviceId))
    /\ clients' = [clients EXCEPT ![c].joined = @ \ {DeviceRoom(deviceId)}]
    /\ last' = SocketStep("unsubscribe-device", c,
                          <<socketEmit(c, "unsubscription-confirmed", deviceId)>>)
    /\ UNCHANGED <<io, connected, alertHistory, generated, serviceInput, pending, provider, reads>>

SubscribeFireAlerts ==
  \E c \in connected :
    /\ rooms' = join(c, FireAlertsRoom)
    /\ clients' = [clients EXCEPT ![c].joined = @ \cup {FireAlertsRoom}]
    /\ last' = SocketStep("subscribe-fire-alerts", c,
                          <<socketEmit(c, "fire-alerts-subscription-confirmed", Undef)>>)
    /\ UNCHANGED <<io, connected, alertHistory, generated, serviceInput, pending, provider, reads>>

UnsubscribeFireAlerts ==
  \E c \in connected :
    /\ rooms' = leave(c, FireAlertsRoom)
    /\ clients' = [clients EXCEPT ![c].joined = @ \ {FireAlertsRoom}]
    /\ last' = SocketStep("unsubscribe-fire-alerts", c, <<>>)
    /\ UNCHANGED <<io, connected, alertHistory, generated, serviceInput, pending, provider, reads>>

(***************************************************************************)
(* The reads of the store.  socket.on('request-latest') and                *)
(* router.get('/latest') both await dynamodbService.getLatestRecord: the   *)
(* handler is suspended until the store answers, and other handlers run    *)
(* in between.  A pending read remembers who asked and whether that        *)
(* socket is still open.                                                   *)
(***************************************************************************)
Read(kind, sock, deviceId) ==
  [kind |-> kind, sock |-> sock, deviceId |-> deviceId, open |-> TRUE]

\* getLatestRecord: an item, null when the table has none, or it throws
StoreResults == {"record", "null", "throw"}

\* the record of a handler that reads the store: result is Undef while the
\* read is pending
ReadStep(h, read, result, out) ==
  [h |-> h, sock |-> read.sock, read |-> read, result |-> result, out |-> out]

\* a reply emitted to every client instead of the socket that asked
requestLatestReplyEveryone(read, result) ==
  <<ioEmit(IF result = "throw" THEN "error" ELSE "latest-data", read.deviceId)>>

\* the continuation of socket.on('request-latest'): socket.emit of
\* latest-data with what the store returned (null included), or of error
\* from the catch; a packet for a socket that has closed is discarded
requestLatestReply(read, result) ==
  LET reply == socketEmit(read.sock,
                          IF result = "throw" THEN "error" ELSE "latest-data",
                          read.deviceId)
  IN <<IF read.open THEN reply ELSE [reply EXCEPT !.to = {}]>>

\* a route that broadcasts whatever the store returned
getLatestEmitsAlways(read, result) ==
  IF result = "throw" THEN Outcome(500, <<>>, 0, 0, 0, TRUE, FALSE)
  ELSE Outcome(IF result = "null" THEN 404 ELSE 200,
               IF io THEN <<ioEmit("latest-data", read.deviceId)>> ELSE <<>>,
               0, 0, 0, FALSE, FALSE)

\* the continuation of router.get('/latest'): 404 without a record, else
\* global.io.emit('latest-data') when the hub is there and 200; an error
\* of the store goes to next(error), which answers 500
getLatest(read, result) ==
  IF result = "throw" THEN Outcome(500, <<>>, 0, 0, 0, TRUE, FALSE)
  ELSE IF result = "null" THEN Outcome(404, <<>>, 0, 0, 0, FALSE, FALSE)
  ELSE Outcome(200, IF io THEN <<ioEmit("latest-data", read.deviceId)>> ELSE <<>>,
               0, 0, 0, FALSE, FALSE)

RequestLatest ==
  \E c \in connected, deviceId \in Devices \cup {Undef} :
    /\ Len(reads) < MaxReads
    /\ reads' = Append(reads, Read("socket", c, deviceId))
    /\ last' = ReadStep("request-latest", Read("socket", c, deviceId), Undef,
                        Outcome(0, <<>>, 0, 0, 0, FALSE, FALSE))
    /\ UNCHANGED <<io, connected, rooms, alertHistory, generated, serviceInput,
                   pending, clients, provider>>

GetLatest ==
  \E deviceId \in Devices \cup {Undef} :
    /\ Len(reads) < MaxReads
    /\ reads' = Append(reads, Read("http", Undef, deviceId))
    /\ last' = ReadStep("GET /api/device/latest", Read("http", Undef, deviceId), Undef,
                        Outcome(0, <<>>, 0, 0, 0, FALSE, FALSE))
    /\ UNCHANGED <<io, connected, rooms, alertHistory, generated, serviceInput,
                   pending, clients, provider>>

\* the store answers a pending read and its handler runs to the end
StoreReturn ==
  \E i \in 1..Len(reads), result \in StoreResults :
    LET read == reads[i]
    IN /\ reads' = Remove(reads, i)
       /\ last' = IF read.kind = "socket"
                  THEN ReadStep("request-latest", read, result,
                                Outcome(0, requestLatestReply(read, result),
                                        0, 0, 0, result = "throw", FALSE))
                  ELSE ReadStep("GET /api/device/latest", read, result,
                                getLatest(read, result))
       /\ UNCHANGED <<io, connected, rooms, alertHistory, generated, serviceInput,
                      pending, clients, provider>>

\* the pending reads of a socket that closes stay pending
closeReads(c) ==
  [i \in 1..Len(reads) |->
     IF reads[i].sock = c THEN [reads[i] EXCEPT !.open = FALSE] ELSE reads[i]]

\* socket.io takes a disconnected socket out of every room
disconnectRooms(c) == [rooms EXCEPT ![c] = {}]

Disconnect ==
  \E c \in connected :
    /\ connected' = connected \ {c}
    /\ rooms' = disconnectRooms(c)
    /\ clients' = [clients EXCEPT ![c] = [live |-> FALSE, joined |-> {}]]
    /\ last' = SocketStep("disconnect", c, <<>>)
    /\ reads' = closeReads(c)
    /\ UNCHANGED <<io, alertHistory, generated, serviceInput, pending, provider>>

NextOf(conns, reqs) ==
  \/ ServerListen
  \/ SnsWebhook(reqs)
  \/ FireAlertWebhook(reqs)
  \/ FetchReturn
  \/ SnsTestPost
  \/ SnsTestGet
  \/ Connect(conns)
  \/ SubscribeDevice
  \/ UnsubscribeDevice
  \/ SubscribeFireAlerts
  \/ UnsubscribeFireAlerts
  \/ Disconnect

\* the ingress: every request, one client
Next == NextOf(IngressConn, Requests)
Spec == Init /\ [][Next]_vars

\* the hub: every client, the deliveries that broadcast
NextHub == NextOf(Conn, HubRequests)
SpecHub == Init /\ [][NextHub]_vars

\* the deliveries that broadcast while reads are pending
ReadRequests ==
  {Request("/sns/webhook", "buffer",
           JsonText("object", Envelope("Notification", Undef, SubjFireAlert,
                                       Message("object", DataTop))))}

\* the reads: both handlers that read the store, with the hub's handlers
\* and a broadcasting delivery running while a read is pending
NextReads ==
  \/ ServerListen
  \/ SnsWebhook(ReadRequests)
  \/ Connect(Conn)
  \/ SubscribeDevice
  \/ UnsubscribeDevice
  \/ SubscribeFireAlerts
  \/ UnsubscribeFireAlerts
  \/ Disconnect
  \/ RequestLatest
  \/ GetLatest
  \/ StoreReturn
SpecReads == Init /\ [][NextReads]_vars

(***************************************************************************)
(* The provider stops answering.  fetch(url) is called without a timeout   *)
(* option and node-fetch 2 has none by default: a fetch the provider never *)
(* answers never settles, and no timer of the server ends it.              *)
(***************************************************************************)
ProviderSilent ==
  /\ provider = "answers"
  /\ provider' = "silent"
  /\ UNCHANGED <<io, connected, rooms, alertHistory, generated, serviceInput,
                 reads, pending, last, clients>>

\* the deliveries of the specification with a provider that may fall silent
LiveRequests ==
  {Request(ep, "buffer", JsonText("object", e)) :
     ep \in Endpoints,
     e \in {Envelope("SubscriptionConfirmation", "SubscribeURL", SubjAbsent, NoMessage),
            Envelope("SubscriptionConfirmation", Undef, SubjAbsent, NoMessage),
            Envelope("Notification", Undef, SubjFireAlert, Message("object", DataTop))}}

\* an answer of the provider resumes the handler: the event loop runs the
\* continuation of every fetch that settles
NextLive ==
  \/ NextOf(IngressConn, LiveRequests)
  \/ ProviderSilent
SpecLive == Init /\ [][NextLive]_vars /\ WF_vars(FetchReturn)

(***************************************************************************)
(* The service called directly.  No route of the server calls it, so its   *)
(* contract is checked under specifications of its own: one that fills the *)
(* history past its capacity and reads it back, one that hands every       *)
(* payload to the classifier.                                              *)
(***************************************************************************)
ProcessFireAlert(maxCalls) ==
  /\ generated < maxCalls
  /\ LET r == processFireAlert(serviceInput)
     IN /\ alertHistory' = r.history
        /\ generated' = IF r.threw THEN generated ELSE generated + 1
        /\ last' = ServiceStep("processFireAlert", serviceInput, r.threw, r.alert)
  /\ UNCHANGED <<io, connected, rooms, serviceInput, pending, clients, provider, reads>>

CreateEmergencyBroadcast(maxCalls) ==
  /\ generated < maxCalls
  /\ LET r == createEmergencyBroadcast(serviceInput)
     IN /\ alertHistory' = r.history
        /\ generated' = IF r.threw THEN generated ELSE generated + 1
        /\ last' = ServiceStep("createEmergencyBroadcast", serviceInput, r.threw, r.ret)
  /\ UNCHANGED <<io, connected, rooms, serviceInput, pending, clients, provider, reads>>

\* the caller holds another payload for its next call
HandPayload(datas) ==
  \E data \in datas :
    /\ data # serviceInput
    /\ serviceInput' = data
    /\ last' = ServiceStep("caller", data, FALSE, Undef)
    /\ UNCHANGED <<io, connected, rooms, alertHistory, generated, pending,
                   clients, provider, reads>>

GetRecentAlerts ==
  \E limit \in Limits :
    /\ last' = ServiceStep("getRecentAlerts", limit, FALSE, getRecentAlerts(limit))
    /\ UNCHANGED <<io, connected, rooms, alertHistory, generated, serviceInput,
                   pending, clients, provider, reads>>

\* calculateSeverity(data): data.temperature of undefined is a TypeError
CalculateSeverity ==
  /\ last' = IF serviceInput.t # "object"
             THEN ServiceStep("calculateSeverity", serviceInput, TRUE, Undef)
             ELSE ServiceStep("calculateSeverity", serviceInput, FALSE,
                              calculateSeverity(serviceInput))
  /\ UNCHANGED <<io, connected, rooms, alertHistory, generated, serviceInput,
                 pending, clients, provider, reads>>

ValidateAlertData ==
  /\ LET v == validateAlertData(serviceInput)
     IN last' = ServiceStep("validateAlertData", serviceInput, v.threw, v.valid)
  /\ UNCHANGED <<io, connected, rooms, alertHistory, generated, serviceInput,
                 pending, clients, provider, reads>>

\* the history: one payload inserted again and again, and read back
NextService ==
  \/ ProcessFireAlert(maxHistorySize + MaxOver)
  \/ CreateEmergencyBroadcast(maxHistorySize + MaxOver)
  \/ HandPayload(RingAlertDatas)
  \/ GetRecentAlerts
SpecService == InitOf(RingAlertDatas) /\ [][NextService]_vars

\* the classifier: every payload
NextClassifier ==
  \/ ProcessFireAlert(MaxClassified)
  \/ CalculateSeverity
  \/ ValidateAlertData
SpecClassifier == InitOf(AlertDatas) /\ [][NextClassifier]_vars

(***************************************************************************)
(* Properties.                                                             *)
(***************************************************************************)
IsDelivery == last.h \in Endpoints
Responded == IsDelivery /\ last.out.status # 0
LastEnv == last.req.json.env

\* the subjects that hold "fire" in some case, and those that are strings
\* (or absent) and do not
FireSubjects == {SubjFireAlert, SubjWildfire}
NonFireSubjects == {SubjRoutine, SubjFir, SubjEmpty, SubjAbsent}
\* the message data that carry a truthy emergency flag
EmergencyData == {DataTop, DataNested, DataNoDev}

\* the last handler was a /sns/webhook delivery of an emergency notification
\* that the subject filter lets through
WebhookEmergency ==
  /\ last.h = "/sns/webhook"
  /\ last.req.json.syntax = "object"
  /\ LastEnv.Type = "Notification"
  /\ LastEnv.Subject \in FireSubjects
  /\ LastEnv.Message.syntax = "object"
  /\ LastEnv.Message.data \in EmergencyData

\* C1: a /sns/webhook delivery whose body parses as an envelope is answered
\* 200 whatever its kind and whatever fails downstream; 500 answers only a
\* body that does not parse as an envelope.
C1_WebhookAcksParseable ==
  (last.h = "/sns/webhook" /\ last.out.status # 0) =>
    /\ last.out.status \in {200, 500}
    /\ last.req.json.syntax = "object" => last.out.status = 200
    /\ last.out.status = 500 => last.req.json.syntax # "object"

\* the processing raised (a subject that is no string) and the delivery
\* was acknowledged all the same
C1_Witness ==
  /\ last.h = "/sns/webhook"
  /\ LastEnv.Type = "Notification"
  /\ LastEnv.Subject = SubjNumber
  /\ last.out.caught
  /\ last.out.status = 200

\* C2: an emergency notification that passes the subject filter causes, in
\* the step that handles it and with the hub available, exactly one
\* emergency broadcast and exactly one append to the alert history (one
\* entry more, or the capacity kept).
C2_EmergencyBroadcastsAndAppends ==
  [][ (WebhookEmergency /\ io)' =>
        /\ last'.out.broadcasts = 1
        /\ \/ Len(alertHistory') = Len(alertHistory) + 1
           \/ /\ Len(alertHistory) = maxHistorySize
              /\ Len(alertHistory') = maxHistorySize
              /\ alertHistory' # alertHistory ]_vars

\* C3: every emergency broadcast, from either endpoint, has an emit addressed
\* to every client, one to the room of the alert's device and one to the
\* fire-alerts room.
C3_BroadcastHasThreeTargets ==
  (IsDelivery /\ last.out.broadcasts > 0) =>
    \A t \in {"all", DeviceRoom(last.out.emits[1].deviceId), FireAlertsRoom} :
      \E i \in 1..Len(last.out.emits) : last.out.emits[i].target = t

\* C4: an emit addressed to a room reaches exactly the clients that are
\* connected and, by their own account, subscribed to the room at that
\* time; an emit addressed to every client reaches exactly the connected
\* ones.
C4_RoomEmitReachesMembers ==
  IsDelivery =>
    \A i \in 1..Len(last.out.emits) :
      LET e == last.out.emits[i]
      IN IF e.target = "all"
         THEN e.to = {c \in Conn : clients[c].live}
         ELSE e.to = {c \in Conn : clients[c].live /\ e.target \in clients[c].joined}

\* one broadcast reaches s1 through its device room and as a client, and s2,
\* connected and not in the room, only as a client
C4_Witness ==
  /\ IsDelivery
  /\ clients["s2"].live
  /\ \E i, j \in 1..Len(last.out.emits) :
       /\ last.out.emits[i].target = DeviceRoom("d1")
       /\ last.out.emits[i].to = {"s1"}
       /\ last.out.emits[j].target = "all"
       /\ last.out.emits[j].to = {"s1", "s2"}

\* C5: on /webhook/fire-alert, once the outer envelope is parsed, nothing
\* that fails in the classify-and-broadcast step fails the delivery: the
\* response is never 500.
C5_AliasAcksParsedEnvelope ==
  ( /\ last.h = "/webhook/fire-alert"
    /\ last.out.status # 0
    /\ last.req.form \in {"buffer", "string"}
    /\ last.req.json.syntax = "object" ) => last.out.status = 200

\* C6: a notification whose subject is absent or does not hold "fire"
\* causes no emit on either endpoint and is acknowledged 200 (here for the
\* notifications whose message carries every field the handlers read).
C6_NonFireSubjectEmitsNothing ==
  ( /\ Responded
    /\ last.req.form \in {"buffer", "string"}
    /\ last.req.json.syntax = "object"
    /\ LastEnv.Type = "Notification"
    /\ LastEnv.Subject \in NonFireSubjects
    /\ LastEnv.Message = Message("object", DataTop) ) =>
      /\ last.out.emits = <<>>
      /\ last.out.status = 200

\* the last handler was a delivery of a notification that reaches the
\* broadcast step of its endpoint
ReachesBroadcast ==
  \/ WebhookEmergency
  \/ /\ last.h = "/webhook/fire-alert"
     /\ last.req.form \in {"buffer", "string"}
     /\ last.req.json.syntax = "object"
     /\ LastEnv.Type = "Notification"
     /\ LastEnv.Message.syntax = "object"
     /\ LastEnv.Message.data.hasLocation

\* C7: with the hub not available an emergency notification is handled
\* without any emit and without any error, raised or caught, and the
\* delivery is acknowledged 200.
C7_HubAbsentIsNoOp ==
  (ReachesBroadcast /\ ~io) =>
    /\ last.out.emits = <<>>
    /\ last.out.broadcasts = 0
    /\ ~last.out.caught
    /\ ~last.out.thrown
    /\ last.out.status = 200

C7_Witness ==
  /\ WebhookEmergency
  /\ ~io
  /\ last.out.status = 200

\* C8: the same emergency envelope delivered twice in a row, with the hub
\* available, makes two broadcasts and two history entries.
C8_RedeliveryBroadcastsAndAppendsTwice ==
  (WebhookEmergency /\ io /\ last.run = 2) =>
    /\ last.runBroadcasts = 2
    /\ Len(alertHistory) = last.runHistory + 2

\* C9: a confirmation delivery makes exactly one outbound fetch when the
\* URL is under SubscribeURL, subscribeURL or SubscribeUrl and none when
\* there is no URL; it emits nothing and is acknowledged 200.
C9_ConfirmationFetchesOnce ==
  ( /\ Responded
    /\ last.req.form \in {"buffer", "string"}
    /\ last.req.json.syntax = "object"
    /\ LastEnv.Type = "SubscriptionConfirmation" ) =>
      /\ LastEnv.urlKey # Undef => last.out.outbound = 1
      /\ LastEnv.urlKey = Undef => last.out.outbound = 0
      /\ last.out.emits = <<>>
      /\ last.out.status = 200

\* C10: however the confirmation fetch of /sns/webhook ends (2xx, non-2xx,
\* rejection) the handler goes on to its 200 response and no error reaches
\* its outer catch; two confirmations of the same URL in a row make two
\* fetches.
C10_ConfirmationNeverPropagates ==
  (last.h = "/sns/webhook" /\ last.fetched # Undef) =>
    /\ last.out.status = 200
    /\ ~last.out.thrown
    /\ last.run = 2 => last.runOutbound = 2

C10_Witness ==
  /\ last.h = "/sns/webhook"
  /\ last.fetched = "reject"
  /\ last.run = 2
  /\ last.out.status = 200

(***************************************************************************)
(* Properties of the service.                                              *)
(***************************************************************************)
Min(a, b) == IF a < b THEN a ELSE b

\* C11: after any number of insertions the history holds at most its
\* capacity of alerts, newest first: it holds exactly the last `capacity`
\* alerts inserted (all of them while there are fewer) and none of the
\* alerts inserted before those.
C11_RingKeepsNewest ==
  /\ Len(alertHistory) <= maxHistorySize
  /\ Len(alertHistory) = Min(generated, maxHistorySize)
  /\ \A i \in 1..Len(alertHistory) : alertHistory[i].id = generated - i + 1
  /\ \A old \in 1..(generated - maxHistorySize) :
       \A i \in 1..Len(alertHistory) : alertHistory[i].id # old

\* the capacity and MaxOver more were inserted: the oldest alert kept is
\* the one inserted after the first MaxOver
C11_Witness ==
  /\ last.h = "processFireAlert"
  /\ generated = maxHistorySize + MaxOver
  /\ Len(alertHistory) = maxHistorySize
  /\ alertHistory[1].id = maxHistorySize + MaxOver
  /\ alertHistory[maxHistorySize].id = MaxOver + 1

Tiers == <<"LOW", "MODERATE", "HIGH", "CRITICAL", "EXTREME">>
TierRank(severity) == CHOOSE i \in 1..Len(Tiers) : Tiers[i] = severity
TierSet == {Tiers[i] : i \in 1..Len(Tiers)}

\* C12: the classifier returns an assessment for every raw payload and
\* never raises: whatever is absent, zero or malformed, processFireAlert
\* returns a value whose severity is one of the five tiers.
C12_ClassifierNeverRaises ==
  last.h = "processFireAlert" =>
    /\ ~last.threw
    /\ last.ret.severity \in TierSet

\* every reading of the payload is a number
AllNumeric(data) ==
  /\ data.t = "object"
  /\ data.temperature # Absent
  /\ data.humidity # Absent
  /\ data.smoke_level # Absent
  /\ data.air_quality # Absent

\* the reference: one point for every threshold a reading lies beyond,
\* one tier for every step of the score reached
ReferenceScore(data) ==
  Cardinality({t \in {35, 45, 60} : data.temperature[1] > t})
  + Cardinality({h \in {20, 35, 50} : data.humidity[1] < h})
  + Cardinality({k \in {100, 200, 300} : data.smoke_level[1] > k})
  + Cardinality({a \in {150, 250} : data.air_quality[1] > a})

ReferenceSeverity(data) ==
  Tiers[1 + Cardinality({m \in {2, 4, 6, 8} : ReferenceScore(data) >= m})]

\* C13: for every combination of temperature, humidity, smoke level and
\* air quality the severity the service computes, called alone or within
\* processFireAlert, equals the reference scoring and tier mapping.
C13_SeverityEqualsReference ==
  /\ (last.h = "calculateSeverity" /\ ~last.threw /\ AllNumeric(last.arg)) =>
       last.ret = ReferenceSeverity(last.arg)
  /\ (last.h = "processFireAlert" /\ ~last.threw /\ AllNumeric(last.arg)) =>
       last.ret.severity = ReferenceSeverity(last.arg)

\* every reading sits exactly on a threshold: 2 + 1 + 1 + 1 points, HIGH
C13_Witness ==
  /\ last.h = "calculateSeverity"
  /\ last.arg.temperature = Num(60)
  /\ last.arg.humidity = Num(35)
  /\ last.arg.smoke_level = Num(200)
  /\ last.arg.air_quality = Num(250)
  /\ last.ret = "HIGH"

\* C15: of two payloads that differ only in temperature, the one with the
\* higher temperature has a tier at least as high as the other's.
C15_MonotonicInTemperature ==
  (last.h = "calculateSeverity" /\ ~last.threw /\ last.arg.temperature # Absent) =>
    \A t2 \in Temperatures \ {Absent} :
      t2[1] > last.arg.temperature[1] =>
        TierRank(calculateSeverity([last.arg EXCEPT !.temperature = t2]))
          >= TierRank(last.ret)

\* a payload classified MODERATE at 45 degrees that is HIGH at 61
C15_Witness ==
  /\ last.h = "calculateSeverity"
  /\ last.arg.temperature = Num(45)
  /\ last.ret = "MODERATE"
  /\ calculateSeverity([last.arg EXCEPT !.temperature = Num(61)]) = "HIGH"

\* C18: getRecentAlerts(limit) returns at most `limit` alerts (10 when no
\* limit is given, none when the limit is below zero), the newest ones in
\* the history's order, the empty sequence on an empty history, and leaves
\* the history as it was.
C18_RecentReturnsNewestPrefix ==
  [][ last'.h = "getRecentAlerts" =>
        LET limit == IF last'.arg = Absent THEN 10 ELSE last'.arg[1]
            ret == last'.ret
        IN /\ ~last'.threw
           /\ Len(ret) <= (IF limit < 0 THEN 0 ELSE limit)
           /\ Len(ret) <= Len(alertHistory)
           /\ \A i \in 1..Len(ret) : ret[i] = alertHistory[i]
           /\ Len(ret) < limit => Len(ret) = Len(alertHistory)
           /\ alertHistory' = alertHistory ]_vars

(***************************************************************************)
(* Properties of the ingress, continued.                                   *)
(***************************************************************************)
\* C14: a fire-subject notification whose readings score HIGH, CRITICAL or
\* EXTREME is an emergency, flags or no flags: with the hub available the
\* delivery makes its emergency broadcast.
C14_HighTierIsEmergency ==
  ( /\ Responded
    /\ last.req.form \in {"buffer", "string"}
    /\ last.req.json.syntax = "object"
    /\ LastEnv.Type = "Notification"
    /\ LastEnv.Subject \in FireSubjects
    /\ LastEnv.Message.syntax = "object"
    /\ TierRank(calculateSeverity(LastEnv.Message.data.readings)) >= TierRank("HIGH")
    /\ io ) =>
      last.out.broadcasts = 1

\* what the handler of the request's endpoint does with the request
Handle(req) ==
  IF req.ep = "/sns/webhook" THEN snsWebhook(req) ELSE fireAlertWebhook(req)

\* C16: an envelope is handled alike whether its body arrives as raw
\* bytes, as a JSON string or as an object already parsed: on either
\* endpoint the three forms give the response, fetch and emits the
\* delivery gave.
C16_BodyFormsAgree ==
  (IsDelivery /\ last.fetched = Undef /\ last.req.json.syntax = "object") =>
    \A form \in {"buffer", "string", "object"} :
      Handle([last.req EXCEPT !.form = form]) = last.out

SubscriptionEvents ==
  {"subscribe-device", "subscribe-fire-alerts",
   "unsubscribe-device", "unsubscribe-fire-alerts"}

\* C17: a join or a leave changes the membership of the calling connection
\* in one room at most and of no other connection, and sends exactly one
\* confirmation, to the calling connection alone.
C17_JoinLeaveConfirmsToCaller ==
  [][ last'.h \in SubscriptionEvents =>
        LET c == last'.sock
        IN /\ \A other \in Conn \ {c} : rooms'[other] = rooms[other]
           /\ Cardinality((rooms'[c] \ rooms[c]) \cup (rooms[c] \ rooms'[c])) <= 1
           /\ Len(last'.out.emits) = 1
           /\ last'.out.emits[1].to = {c} ]_vars

\* a production delivery of the message data under a fire subject
ProductionNotification(data) ==
  Request("/sns/webhook", "buffer",
          JsonText("object", Envelope("Notification", Undef, SubjFireAlert,
                                      Message("object", data))))

\* C19: a test request is handled as a production fire notification with
\* the same message data is, and a POST /sns/test without a body, like
\* every GET /sns/test, uses the canned emergency sample: with the hub
\* available it makes the emergency broadcast.
C19_TestRunsProductionPath ==
  /\ (last.h = "POST /sns/test" /\ last.body.sent) =>
       last.out = snsWebhook(ProductionNotification(last.body.data))
  /\ (last.h = "GET /sns/test" /\ io) => last.out.broadcasts = 1
  /\ (last.h = "POST /sns/test" /\ ~last.body.sent /\ io) => last.out.broadcasts = 1

\* C20: a delivery whose signature is missing or invalid causes no
\* confirmation fetch, no emit and no change of the history.
C20_UnsignedDeliveryIsIgnored ==
  (IsDelivery /\ last.req.sig # "valid") =>
    /\ last.out.fetchCalls = 0
    /\ last.out.emits = <<>>
    /\ Len(alertHistory) = last.runHistory

\* C21: the confirmation fetch is bounded by a timeout: a delivery that is
\* suspended at its fetch is eventually acknowledged, also when the provider
\* never answers.
C21_SuspendedDeliveryIsAcknowledged ==
  (pending # <<>>) ~> (pending = <<>>)

\* C22: a /sns/webhook delivery of the unsubscribe kind or of a kind the
\* handler does not know changes no room membership and not the history,
\* makes no fetch and no emit, and is acknowledged 200.
C22_TeardownAndUnknownOnlyAck ==
  [][ ( /\ last'.h = "/sns/webhook"
        /\ last'.req.json.syntax = "object"
        /\ last'.req.json.env.Type \in {"UnsubscribeConfirmation", "Other"} ) =>
          /\ rooms' = rooms
          /\ alertHistory' = alertHistory
          /\ pending' = pending
          /\ last'.out.fetchCalls = 0
          /\ last'.out.emits = <<>>
          /\ last'.out.status = 200 ]_vars

\* a delivery of an unknown kind, already parsed, acknowledged while a
\* client is in a room
C22_Witness ==
  /\ last.h = "/sns/webhook"
  /\ last.req.form = "object"
  /\ LastEnv.Type = "Other"
  /\ last.out.status = 200
  /\ rooms["s1"] # {}

\* C23: within one broadcast every emit addressed to every client comes
\* before any emit addressed to a room.
C23_AllClientsBeforeRooms ==
  IsDelivery =>
    \A i, j \in 1..Len(last.out.emits) :
      (i < j /\ last.out.emits[i].target # "all") => last.out.emits[j].target # "all"

\* the first value that is present
FirstPresent(values, absent, default) ==
  IF \E i \in 1..Len(values) : values[i] # absent
  THEN values[CHOOSE i \in 1..Len(values) :
                /\ values[i] # absent
                /\ \A j \in 1..(i - 1) : values[j] = absent]
  ELSE default

\* C24: every field of the assessment is the first present value in the
\* order top-level key, top-level synonym, payload key, payload synonym: a
\* notification is an emergency exactly when its first present flag is
\* true, and the event carries the device and the readings of the top
\* level when they are present there, a 0 included.
C24_TopLevelFirst ==
  ( /\ last.h = "/sns/webhook"
    /\ last.req.json.syntax = "object"
    /\ LastEnv.Type = "Notification"
    /\ LastEnv.Subject \in FireSubjects
    /\ LastEnv.Message.syntax = "object"
    /\ io ) =>
      LET d == LastEnv.Message.data
          nested == payloadReadings(d)
          flag == FirstPresent(<<d.is_emergency, d.emergency,
                                 IF d.hasPayload THEN d.p_is_emergency ELSE Undef,
                                 IF d.hasPayload THEN d.p_emergency ELSE Undef>>,
                               Undef, "false")
      IN /\ last.out.broadcasts = (IF flag = "true" THEN 1 ELSE 0)
         /\ last.out.broadcasts = 1 =>
              LET e == last.out.emits[1]
              IN /\ e.deviceId = FirstPresent(<<d.deviceId, d.device>>, Undef, "Unknown Device")
                 /\ e.data.readings.temperature =
                      FirstPresent(<<d.readings.temperature, nested.temperature>>, Absent, Num(0))
                 /\ e.data.readings.humidity =
                      FirstPresent(<<d.readings.humidity, nested.humidity>>, Absent, Num(0))
                 /\ e.data.readings.smoke_level =
                      FirstPresent(<<d.readings.smoke_level, nested.smoke_level>>, Absent, Num(0))
                 /\ e.data.readings.air_quality =
                      FirstPresent(<<d.readings.air_quality, nested.air_quality>>, Absent, Num(0))

\* the payload with 0 in the place of every reading that is absent
WithZeros(data) ==
  [data EXCEPT !.temperature = IF @ = Absent THEN Num(0) ELSE @,
               !.humidity = IF @ = Absent THEN Num(0) ELSE @,
               !.smoke_level = IF @ = Absent THEN Num(0) ELSE @,
               !.air_quality = IF @ = Absent THEN Num(0) ELSE @]

\* C25: a payload in which a reading is absent is assessed as the same
\* payload with that reading equal to 0.
C25_AbsentIsZero ==
  (last.h = "calculateSeverity" /\ ~last.threw) =>
    last.ret = calculateSeverity(WithZeros(last.arg))

\* the events of an emergency broadcast
EmergencyEvents == {"fire-emergency", "device-emergency", "emergency-popup"}

\* C26: every emergency event a delivery emits carries the tier the
\* classifier computes for the notification's readings, autoExpire true
\* exactly for LOW and MODERATE, and priority HIGH exactly for CRITICAL and
\* EXTREME, NORMAL otherwise.
C26_EventCarriesClassifiedTier ==
  (IsDelivery /\ last.out.broadcasts > 0) =>
    \A i \in 1..Len(last.out.emits) :
      LET e == last.out.emits[i]
          tier == calculateSeverity(e.data.readings)
      IN e.event \in EmergencyEvents =>
           /\ e.data.severity = tier
           /\ e.data.ui.autoExpire = (IF tier \in {"LOW", "MODERATE"} THEN "true" ELSE "false")
           /\ e.data.ui.priority = (IF tier \in {"CRITICAL", "EXTREME"} THEN "HIGH" ELSE "NORMAL")


\* C27: a call of processFireAlert or createEmergencyBroadcast that raises
\* leaves the history exactly as it was; a call that returns has put the
\* alert it returns, and nothing else, at the head of the history (the
\* oldest entry falling off a full one).
C27_HistoryGrowsOnlyOnSuccess ==
  [][last'.h \in {"processFireAlert", "createEmergencyBroadcast"} =>
       LET stored == IF last'.h = "processFireAlert" THEN last'.ret
                     ELSE last'.ret.alert
       IN IF last'.threw
          THEN alertHistory' = alertHistory
          ELSE /\ Len(alertHistory') = Min(Len(alertHistory) + 1, maxHistorySize)
               /\ alertHistory'[1] = stored
               /\ \A i \in 2..Len(alertHistory') :
                     alertHistory'[i] = alertHistory[i - 1]]_vars

\* a call raised on a history that already holds alerts
C27_Witness ==
  /\ last.h = "createEmergencyBroadcast"
  /\ last.threw
  /\ Len(alertHistory) >= 2


\* the emergency events among the emits of a step
EmergencyEmits(step) ==
  {i \in 1..Len(step.out.emits) : step.out.emits[i].event \in EmergencyEvents}

\* C28: an emergency handled while the hub is not available is dropped for
\* good.  Nothing holds it back for later (the only deliveries kept are
\* those suspended at the confirmation fetch, and they emit nothing when
\* they resume); the hub coming up, a client connecting and every other
\* socket event emit no emergency event; a delivery emits emergency events
\* only in the step it arrives in, with the hub available, and only those
\* of its own single broadcast.
C28_DroppedEmergencyIsNeverEmitted ==
  [][/\ \A i \in 1..Len(pending') :
          pending'[i].json.env.Type = "SubscriptionConfirmation"
     /\ EmergencyEmits(last') # {} =>
           /\ last'.h \in Endpoints \cup {"POST /sns/test", "GET /sns/test"}
           /\ io
           /\ last'.out.broadcasts = 1
           /\ last'.h \in Endpoints =>
                 /\ last'.fetched = Undef
                 /\ last'.req.json.env.Type = "Notification"]_vars

\* the hub came up right after an emergency notification was handled
\* without it, and emitted nothing
C28_Witness ==
  /\ last.h = "listen"
  /\ last.req # NoRequest
  /\ last.req.ep = "/sns/webhook"
  /\ last.req.json.syntax = "object"
  /\ last.req.json.env.Type = "Notification"
  /\ last.req.json.env.Subject \in FireSubjects
  /\ last.req.json.env.Message.syntax = "object"
  /\ last.req.json.env.Message.data \in EmergencyData
  /\ last.out.emits = <<>>
  /\ io


\* the reads pending for sockets
SocketReads(pendingReads) ==
  {i \in 1..Len(pendingReads) : pendingReads[i].kind = "socket"}

\* C29: a request-latest event emits nothing until the store answers, and
\* then exactly one event: latest-data, or error when the read failed,
\* addressed to the socket that asked and reaching nobody else.  Neither
\* step changes a room.  In between, no other handler answers it, drops it
\* or emits a latest-data or error event to a single socket: the pending
\* reads of sockets change only by the request and by its answer.
C29_RequestLatestRepliesOnceToCaller ==
  [][/\ (last'.h = "request-latest" /\ last'.result = Undef) =>
           /\ last'.out.emits = <<>>
           /\ rooms' = rooms
           /\ Cardinality(SocketReads(reads')) = Cardinality(SocketReads(reads)) + 1
     /\ (last'.h = "request-latest" /\ last'.result # Undef) =>
           /\ Len(last'.out.emits) = 1
           /\ last'.out.emits[1].event =
                 (IF last'.result = "throw" THEN "error" ELSE "latest-data")
           /\ last'.out.emits[1].target = last'.read.sock
           /\ last'.out.emits[1].to \subseteq {last'.read.sock}
           /\ rooms' = rooms
           /\ Cardinality(SocketReads(reads')) = Cardinality(SocketReads(reads)) - 1
     /\ last'.h # "request-latest" =>
           /\ Cardinality(SocketReads(reads')) = Cardinality(SocketReads(reads))
           /\ \A i \in 1..Len(last'.out.emits) :
                 last'.out.emits[i].event \in {"latest-data", "error"} =>
                   last'.out.emits[i].target = "all"]_vars

\* a failed read answered with error to its caller, who sits in a room,
\* while another read is still pending and the other client is connected
C29_Witness ==
  /\ last.h = "request-latest"
  /\ last.result = "throw"
  /\ last.out.emits[1].to = {last.read.sock}
  /\ rooms[last.read.sock] # {}
  /\ connected = Conn
  /\ reads # <<>>

\* C30: a GET /api/device/latest that finds a record emits, when the hub is
\* available, one latest-data event that reaches every connected client,
\* and answers 200; when the store has no record (404) or fails (500)
\* nothing is emitted.
C30_LatestRouteBroadcastsRecord ==
  (last.h = "GET /api/device/latest" /\ last.result # Undef) =>
    IF last.result = "record"
    THEN /\ last.out.status = 200
         /\ io => /\ Len(last.out.emits) = 1
                  /\ last.out.emits[1].event = "latest-data"
                  /\ last.out.emits[1].to = {c \in Conn : clients[c].live}
    ELSE /\ last.out.emits = <<>>
         /\ last.out.status = (IF last.result = "null" THEN 404 ELSE 500)

\* the route found a record and both clients, neither of which has a read
\* pending, get latest-data
C30_Witness ==
  /\ last.h = "GET /api/device/latest"
  /\ last.result = "record"
  /\ io
  /\ Len(last.out.emits) = 1
  /\ last.out.emits[1].to = Conn
  /\ reads = <<>>

====
